---- MODULE Spec2Model ----
(***************************************************************************)
(* Monte Carlo option pricer: the simulation engine (services/monteCarlo,  *)
(* src/unnamed/part_001) and the App component that runs it               *)
(* (src/Nouveau dossier/App.tsx), with the Sidebar inputs                  *)
(* (src/unnamed/part_000).                                                 *)
(*                                                                         *)
(* Numbers.  JavaScript doubles are modelled in fixed point:               *)
(*   money (s0, strikes, terminal prices, prices)   units of 1/100         *)
(*   percentages (r, q, s0Step, vol, volStep)       whole percent          *)
(*   decimal volatility (vol / 100 and the vol axis) units of 1/100        *)
(*   exponents (drift, -rDec * t)                   units of 1/20000       *)
(*   exponentials (Math.exp)                        units of 1/10000       *)
(* NaN is a value of its own; 0/0 produces it.                             *)
(* Math.random is a generator with an unknown seed: the seed is chosen     *)
(* in Init, every later draw is determined by the generator state.         *)
(***************************************************************************)
EXTENDS Integers, Sequences, FiniteSets, TLC

VARIABLES
    \* ---- App state (App.tsx 12-42) ----
    params,              \* useState<SimulationParams>
    isSimulating,        \* useState(false)
    appResults,          \* useState<SimulationResult | null>: <<>> is null, <<r>> is r
    selectedMaturity,    \* useState<number>(0)
    selectedStrike,      \* useState<number>(0)
    runs,                \* number of Run clicks so far (bounds the model)
    edits,               \* number of Sidebar edits so far (bounds the model)
    \* ---- one call of runFullSimulation (part_001 76-169) ----
    pc,                  \* position of the run
    runParams,           \* the params argument (the value the callback closed over)
    s0List, volList,     \* the two axes
    results,             \* ScenarioRow[] being built
    centralDistribution,
    detailedPaths,       \* JavaScript array: a function from its indices to number[]
    i, j, tIdx,          \* loop indices
    terminalPrices, p,   \* Float64Array of the current triple and the path index
    u, v,                \* locals of gaussianRandom
    kIdx,                \* position in strikes
    rng,                 \* state of the generator behind Math.random
    \* ---- history of the run ----
    samples,             \* triple -> the sample simulated for it
    centralFrom,         \* the triples whose sample was assigned to centralDistribution, in order
    detailedFrom,        \* column -> the triples whose sample was assigned to it, in order
    simulated,           \* the triples whose path set was simulated, in order
    valuations,          \* number of payoff valuations performed
    draws,               \* number of calls of Math.random
    zeroDraws,           \* number of calls of Math.random that returned 0
    callDrawn,           \* the values Math.random returned to the current gaussianRandom call
    \* ---- export (App.tsx 25, 65-181) and the timers of the App ----
    isExporting,         \* useState(false)
    exportJob,           \* what the pending export callback closed over: <<>> or <<[results, params]>>
    workbook,            \* the workbook the last step wrote: <<>> or <<w>>
    timers,              \* the pending setTimeout callbacks, oldest first
    resultRun            \* history: the run that produced the results state: <<>> or <<r>>

appVars == <<params, isSimulating, appResults, selectedMaturity, selectedStrike, runs, edits>>
runVars == <<pc, runParams, s0List, volList, results, centralDistribution, detailedPaths,
             i, j, tIdx, terminalPrices, p, u, v, kIdx, rng>>
histVars == <<samples, centralFrom, detailedFrom>>
countVars == <<simulated, valuations, draws, zeroDraws, callDrawn>>
viewVars == <<isExporting, exportJob, timers, resultRun>>
vars == <<appVars, runVars, histVars, countVars, viewVars, workbook>>

-----------------------------------------------------------------------------
\* Bounds of the model
MaxPaths == 2
MaxMaturities == 4
MaxStrikes == 2
MaxRuns == 2
MaxEdits == 2

\* A number that is not a number (0/0).  No reachable money value equals it.
NaN == -999999

\* A path count beyond what a Float64Array can hold in the runtime.
HugePaths == MaxPaths + 1

-----------------------------------------------------------------------------
\* Arithmetic of the runtime

Max(a, b) == IF a >= b THEN a ELSE b

\* Math.sqrt on the maturities of the model (integers >= 0), rounded down
RECURSIVE SqrtFrom(_, _)
SqrtFrom(n, s) == IF (s + 1) * (s + 1) > n THEN s ELSE SqrtFrom(n, s + 1)
\* faulty variant: the root of 0 is 1
MathSqrt_FromOne(n) == SqrtFrom(n, 1)
MathSqrt(n) == SqrtFrom(n, 0)

\* Math.exp: argument in 1/20000, result in 1/10000; (1 + x/2)^2, exact at 0
MathExp(x) == LET a == 40000 + x IN (a * (a \div 4)) \div 40000

\* new Float64Array(n) throws a RangeError for a negative or too large length
Float64ArrayThrows(n) == n < 0 \/ n >= HugePaths

\* Math.random(): the value drawn (k stands for k/5) and the next generator state
MathRandomValue(s) == s
MathRandomNext(s) == (s + 1) % 5

\* sqrt(-2 ln(u/5)) and cos(2 pi v/5), in 1/100
Magnitude(uu) == CASE uu = 1 -> 179 [] uu = 2 -> 135 [] uu = 3 -> 101 [] OTHER -> 67
Cosine(vv) == CASE vv = 1 -> 31 [] vv = 2 -> -81 [] vv = 3 -> -81 [] OTHER -> 31

\* gaussianRandom's return expression (part_001 line 8), in 1/100
BoxMuller(uu, vv) == (Magnitude(uu) * Cosine(vv)) \div 100

-----------------------------------------------------------------------------
\* Scenario grid generators (part_001 14-37)

\* faulty variants: the values are returned from the highest to the lowest; the spot
\* axis steps additively
generateGeometricScenarios_Descending(pivot, stepPercent) ==
    << (pivot * ((100 + stepPercent) * (100 + stepPercent))) \div 10000,
       (pivot * (100 + stepPercent)) \div 100,
       pivot,
       (pivot * (100 - stepPercent)) \div 100,
       (pivot * ((100 - stepPercent) * (100 - stepPercent))) \div 10000 >>
generateGeometricScenarios_Additive(pivot, stepPercent) ==
    << pivot - 2 * stepPercent,
       pivot - stepPercent,
       pivot,
       pivot + stepPercent,
       pivot + 2 * stepPercent >>
generateGeometricScenarios(pivot, stepPercent) ==
    << (pivot * ((100 - stepPercent) * (100 - stepPercent))) \div 10000,
       (pivot * (100 - stepPercent)) \div 100,
       pivot,
       (pivot * (100 + stepPercent)) \div 100,
       (pivot * ((100 + stepPercent) * (100 + stepPercent))) \div 10000 >>

\* faulty variant: the pivot is taken in percent, that is 100 times its decimal value
generateArithmeticScenarios_PercentPivot(pivot, stepPercent) ==
    << 100 * pivot - 2 * stepPercent,
       100 * pivot - stepPercent,
       100 * pivot,
       100 * pivot + stepPercent,
       100 * pivot + 2 * stepPercent >>
\* pivot is already decimal (1/100); step = stepPercent / 100 is stepPercent in 1/100
generateArithmeticScenarios(pivot, stepPercent) ==
    << pivot - 2 * stepPercent,
       pivot - stepPercent,
       pivot,
       pivot + stepPercent,
       pivot + 2 * stepPercent >>

-----------------------------------------------------------------------------
\* Detailed-column mapper (part_001 42-74)

baseOffset(t) == 3 + (t * 8)

\* faulty variants: (2,1) shares the offset of (1,3); spot index 0 takes the place of 1
getDetailedColumnIndex_Collision(sIdx, vIdx, t) ==
    IF sIdx = 2 /\ vIdx = 2 THEN t
    ELSE IF sIdx = 1 /\ vIdx = 2 THEN baseOffset(t) + 0
    ELSE IF sIdx = 1 /\ vIdx = 1 THEN baseOffset(t) + 1
    ELSE IF sIdx = 1 /\ vIdx = 3 THEN baseOffset(t) + 2
    ELSE IF sIdx = 2 /\ vIdx = 1 THEN baseOffset(t) + 2
    ELSE IF sIdx = 2 /\ vIdx = 3 THEN baseOffset(t) + 4
    ELSE IF sIdx = 3 /\ vIdx = 2 THEN baseOffset(t) + 5
    ELSE IF sIdx = 3 /\ vIdx = 1 THEN baseOffset(t) + 6
    ELSE IF sIdx = 3 /\ vIdx = 3 THEN baseOffset(t) + 7
    ELSE -1
getDetailedColumnIndex_OuterSpot(sIdx, vIdx, t) ==
    IF sIdx = 2 /\ vIdx = 2 THEN t
    ELSE IF sIdx = 0 /\ vIdx = 2 THEN baseOffset(t) + 0
    ELSE IF sIdx = 0 /\ vIdx = 1 THEN baseOffset(t) + 1
    ELSE IF sIdx = 0 /\ vIdx = 3 THEN baseOffset(t) + 2
    ELSE IF sIdx = 2 /\ vIdx = 1 THEN baseOffset(t) + 3
    ELSE IF sIdx = 2 /\ vIdx = 3 THEN baseOffset(t) + 4
    ELSE IF sIdx = 3 /\ vIdx = 2 THEN baseOffset(t) + 5
    ELSE IF sIdx = 3 /\ vIdx = 1 THEN baseOffset(t) + 6
    ELSE IF sIdx = 3 /\ vIdx = 3 THEN baseOffset(t) + 7
    ELSE -1
getDetailedColumnIndex(sIdx, vIdx, t) ==
    IF sIdx = 2 /\ vIdx = 2 THEN t
    ELSE IF sIdx = 1 /\ vIdx = 2 THEN baseOffset(t) + 0
    ELSE IF sIdx = 1 /\ vIdx = 1 THEN baseOffset(t) + 1
    ELSE IF sIdx = 1 /\ vIdx = 3 THEN baseOffset(t) + 2
    ELSE IF sIdx = 2 /\ vIdx = 1 THEN baseOffset(t) + 3
    ELSE IF sIdx = 2 /\ vIdx = 3 THEN baseOffset(t) + 4
    ELSE IF sIdx = 3 /\ vIdx = 2 THEN baseOffset(t) + 5
    ELSE IF sIdx = 3 /\ vIdx = 1 THEN baseOffset(t) + 6
    ELSE IF sIdx = 3 /\ vIdx = 3 THEN baseOffset(t) + 7
    ELSE -1

-----------------------------------------------------------------------------
\* Inputs of the model

\* maturities lists: <<0, 1, 4, 0, ..>> (first maturity 0, distinct up to three entries)
\* and <<1, 1, 4, 4, ..>> (a repeated first maturity)
MaturityList(family, n) ==
    [k \in 1..n |-> IF family = 1 THEN ((k - 1) % 3) * ((k - 1) % 3)
                                   ELSE (IF k <= 2 THEN 1 ELSE 4)]
MaturityLists == {MaturityList(f, n) : f \in 1..2, n \in 0..MaxMaturities}

\* strikes lists: <<100, 150, 200, ..>> and <<100, 100, ..>> (a repeated strike)
StrikeList(family, n) ==
    [k \in 1..n |-> IF family = 1 THEN 100 + 50 * (k - 1) ELSE 100]
StrikeLists == {StrikeList(f, n) : f \in 1..2, n \in 0..MaxStrikes}

PathCounts == {-1, 0, HugePaths} \cup (1..MaxPaths)

\* r, q, s0, s0Step, vol, volStep
Markets ==
    { [r |-> 3, q |-> 0, s0 |-> 100, s0Step |-> 10, vol |-> 20, volStep |-> 5],
      [r |-> 0, q |-> 3, s0 |-> 200, s0Step |-> 0, vol |-> 20, volStep |-> 0] }

MakeParams(m, n, mats, ks) ==
    [r |-> m.r, q |-> m.q, s0 |-> m.s0, s0Step |-> m.s0Step, vol |-> m.vol,
     volStep |-> m.volStep, nPaths |-> n, maturities |-> mats, strikes |-> ks]

ParamSpace ==
    {MakeParams(m, n, mats, ks) :
        m \in Markets, n \in PathCounts, mats \in MaturityLists, ks \in StrikeLists}

Seeds == {0}

\* App.tsx 12-22, scaled down: 3 maturities, 2 strikes
DefaultParams ==
    MakeParams([r |-> 3, q |-> 0, s0 |-> 100, s0Step |-> 10, vol |-> 20, volStep |-> 5],
               1, <<1, 4, 0>>, <<100, 150>>)

-----------------------------------------------------------------------------
\* runFullSimulation (part_001 76-169)

M == Len(runParams.maturities)
K == Len(runParams.strikes)

\* new Array(27).fill(null).map(() => [])   (line 90)
\* faulty variant: the slots start zero-filled
EmptyDetailedPaths_ZeroFilled == [c \in 0..26 |-> <<0>>]
EmptyDetailedPaths == [c \in 0..26 |-> <<>>]

\* detailedPaths[idx] = sample on a JavaScript array: the index is created if absent
ArrayStore(arr, idx, value) ==
    [c \in (DOMAIN arr) \cup {idx} |-> IF c = idx THEN value ELSE arr[c]]

\* detailedPaths.length
ArrayLength(arr) ==
    IF DOMAIN arr = {} THEN 0
    ELSE 1 + (CHOOSE c \in DOMAIN arr : \A d \in DOMAIN arr : d <= c)

\* the three nested for loops (lines 102, 105, 109): the triple after (a, b, t),
\* <<5, 0, 0>> once the loops are exhausted
\* faulty variant: the vol loop starts at 1
FirstTriple_SkipsFirstVol(m) == IF m = 0 THEN <<5, 0, 0>> ELSE <<0, 1, 0>>
FirstTriple(m) == IF m = 0 THEN <<5, 0, 0>> ELSE <<0, 0, 0>>
\* faulty variants: the vol loop stops one short; the vol loop is the innermost
NextTripleOf_ShortVol(a, b, t, m) ==
    IF t + 1 < m THEN <<a, b, t + 1>>
    ELSE IF b + 1 < 4 THEN <<a, b + 1, 0>>
    ELSE <<a + 1, 0, 0>>
NextTripleOf_VolInnermost(a, b, t, m) ==
    IF b + 1 < 5 THEN <<a, b + 1, t>>
    ELSE IF t + 1 < m THEN <<a, 0, t + 1>>
    ELSE <<a + 1, 0, 0>>
NextTripleOf(a, b, t, m) ==
    IF t + 1 < m THEN <<a, b, t + 1>>
    ELSE IF b + 1 < 5 THEN <<a, b + 1, 0>>
    ELSE <<a + 1, 0, 0>>

\* a === b on numbers
StrictEquals(a, b) == a # NaN /\ b # NaN /\ a = b

\* lines 93-94, 113-115 for the current triple
currentS0 == s0List[i + 1]
currentVol == volList[j + 1]
currentT == runParams.maturities[tIdx + 1]
drift == (200 * (runParams.r - runParams.q) - currentVol * currentVol) * currentT
diffusion == currentVol * MathSqrt(currentT)
discountFactor == MathExp(-200 * runParams.r * currentT)

\* line 121: currentS0 * Math.exp(drift + diffusion * z), z in 1/100
TerminalPrice(z) == (currentS0 * MathExp(drift + 2 * diffusion * z)) \div 10000

\* lines 140-149 for strike k
\* faulty variant: the payoff is not floored at zero
RECURSIVE SumPayoff_NoFloor(_, _, _)
SumPayoff_NoFloor(prices, k, n) ==
    IF n = 0 THEN 0 ELSE SumPayoff_NoFloor(prices, k, n - 1) + (prices[n] - k)
RECURSIVE SumPayoff(_, _, _)
SumPayoff(prices, k, n) ==
    IF n = 0 THEN 0 ELSE SumPayoff(prices, k, n - 1) + Max(prices[n] - k, 0)
Divide(a, b) == IF b = 0 THEN NaN ELSE a \div b
Price(prices, k, n) ==
    LET avgPayoff == Divide(SumPayoff(prices, k, n), n)
    IN  IF avgPayoff = NaN THEN NaN ELSE (discountFactor * avgPayoff) \div 10000

\* lines 151-158
\* faulty variant: every row carries the first strike
ScenarioRow_FirstStrike(k) ==
    [s0 |-> currentS0, vol |-> currentVol, t |-> currentT, k |-> runParams.strikes[1],
     price |-> Price(terminalPrices, k, runParams.nPaths), stdErr |-> 0]
ScenarioRow(k) ==
    [s0 |-> currentS0, vol |-> currentVol, t |-> currentT, k |-> k,
     price |-> Price(terminalPrices, k, runParams.nPaths), stdErr |-> 0]

\* lines 77-99: axes, empty accumulators; then the loops are entered
GenerateAxes ==
    /\ pc = "axes"
    /\ s0List' = generateGeometricScenarios(runParams.s0, runParams.s0Step)
    /\ volList' = generateArithmeticScenarios(runParams.vol, runParams.volStep)
    /\ results' = <<>>
    /\ centralDistribution' = <<>>
    /\ detailedPaths' = EmptyDetailedPaths
    /\ i' = FirstTriple(M)[1]
    /\ j' = FirstTriple(M)[2]
    /\ tIdx' = FirstTriple(M)[3]
    /\ pc' = "loop"
    /\ UNCHANGED <<runParams, terminalPrices, p, u, v, kIdx, rng>>
    /\ UNCHANGED <<appVars, histVars, countVars>>
    /\ UNCHANGED viewVars
    /\ workbook' = <<>>

\* lines 110-117: a triple begins; the Float64Array is allocated (zero-filled) or throws
BeginTriple ==
    /\ pc = "loop"
    /\ i < 5
    /\ IF Float64ArrayThrows(runParams.nPaths)
       THEN /\ pc' = "thrown"
            /\ UNCHANGED <<terminalPrices, p, simulated>>
       ELSE /\ terminalPrices' = [n \in 1..runParams.nPaths |-> 0]
            /\ p' = 0
            /\ simulated' = Append(simulated, <<i, j, tIdx>>)
            /\ pc' = "paths"
    /\ UNCHANGED <<runParams, s0List, volList, results, centralDistribution, detailedPaths,
                   i, j, tIdx, u, v, kIdx, rng>>
    /\ UNCHANGED <<appVars, histVars, valuations, draws, zeroDraws, callDrawn>>
    /\ UNCHANGED viewVars
    /\ workbook' = <<>>

\* line 119-120: the path loop calls gaussianRandom (line 5: u = 0, v = 0)
CallGaussianRandom ==
    /\ pc = "paths"
    /\ p < runParams.nPaths
    /\ u' = 0
    /\ v' = 0
    /\ callDrawn' = <<>>
    /\ pc' = "drawU"
    /\ UNCHANGED <<runParams, s0List, volList, results, centralDistribution, detailedPaths,
                   i, j, tIdx, terminalPrices, p, kIdx, rng>>
    /\ UNCHANGED <<appVars, histVars, simulated, valuations, draws, zeroDraws>>
    /\ UNCHANGED viewVars
    /\ workbook' = <<>>

\* line 6: while(u === 0) u = Math.random()
DrawU ==
    /\ pc = "drawU"
    /\ u = 0
    /\ u' = MathRandomValue(rng)
    /\ rng' = MathRandomNext(rng)
    /\ draws' = draws + 1
    /\ zeroDraws' = IF MathRandomValue(rng) = 0 THEN zeroDraws + 1 ELSE zeroDraws
    /\ callDrawn' = Append(callDrawn, MathRandomValue(rng))
    /\ UNCHANGED <<pc, runParams, s0List, volList, results, centralDistribution,
                   detailedPaths, i, j, tIdx, terminalPrices, p, v, kIdx>>
    /\ UNCHANGED <<appVars, histVars, simulated, valuations>>
    /\ UNCHANGED viewVars
    /\ workbook' = <<>>

\* faulty variant: a value is drawn and discarded before v is drawn
DrawV_DiscardsOne ==
    /\ pc = "drawU"
    /\ u # 0
    /\ v = 0
    /\ v' = MathRandomValue(MathRandomNext(rng))
    /\ rng' = MathRandomNext(MathRandomNext(rng))
    /\ draws' = draws + 2
    /\ zeroDraws' = IF MathRandomValue(rng) = 0 THEN zeroDraws + 1 ELSE zeroDraws
    /\ callDrawn' = callDrawn \o <<MathRandomValue(rng), MathRandomValue(MathRandomNext(rng))>>
    /\ UNCHANGED <<pc, runParams, s0List, volList, results, centralDistribution,
                   detailedPaths, i, j, tIdx, terminalPrices, p, u, kIdx>>
    /\ UNCHANGED <<appVars, histVars, simulated, valuations>>
    /\ UNCHANGED viewVars
    /\ workbook' = <<>>

\* line 7: while(v === 0) v = Math.random()
DrawV ==
    /\ pc = "drawU"
    /\ u # 0
    /\ v = 0
    /\ v' = MathRandomValue(rng)
    /\ rng' = MathRandomNext(rng)
    /\ draws' = draws + 1
    /\ zeroDraws' = IF MathRandomValue(rng) = 0 THEN zeroDraws + 1 ELSE zeroDraws
    /\ callDrawn' = Append(callDrawn, MathRandomValue(rng))
    /\ UNCHANGED <<pc, runParams, s0List, volList, results, centralDistribution,
                   detailedPaths, i, j, tIdx, terminalPrices, p, u, kIdx>>
    /\ UNCHANGED <<appVars, histVars, simulated, valuations>>
    /\ UNCHANGED viewVars
    /\ workbook' = <<>>

\* faulty variant: gaussianRandom returns without waiting for a non-zero v
StorePath_IgnoresV ==
    /\ pc = "drawU"
    /\ u # 0
    /\ terminalPrices' = [terminalPrices EXCEPT ![p + 1] = TerminalPrice(BoxMuller(u, v))]
    /\ p' = p + 1
    /\ pc' = "paths"
    /\ UNCHANGED <<runParams, s0List, volList, results, centralDistribution, detailedPaths,
                   i, j, tIdx, u, v, kIdx, rng>>
    /\ UNCHANGED <<appVars, histVars, countVars>>
    /\ UNCHANGED viewVars
    /\ workbook' = <<>>

\* lines 8, 121: gaussianRandom returns z; terminalPrices[p] is written
StorePath ==
    /\ pc = "drawU"
    /\ u # 0
    /\ v # 0
    /\ terminalPrices' = [terminalPrices EXCEPT ![p + 1] = TerminalPrice(BoxMuller(u, v))]
    /\ p' = p + 1
    /\ pc' = "paths"
    /\ UNCHANGED <<runParams, s0List, volList, results, centralDistribution, detailedPaths,
                   i, j, tIdx, u, v, kIdx, rng>>
    /\ UNCHANGED <<appVars, histVars, countVars>>
    /\ UNCHANGED viewVars
    /\ workbook' = <<>>

\* line 125: the test that selects the central scenario
IsCentral == i = 2 /\ j = 2 /\ StrictEquals(currentT, runParams.maturities[1])

\* lines 124-136: the sample is kept as the central distribution and/or in its column
RetainSample ==
    /\ pc = "paths"
    /\ p >= runParams.nPaths
    /\ IF IsCentral
       THEN /\ centralDistribution' = terminalPrices
            /\ centralFrom' = Append(centralFrom, <<i, j, tIdx>>)
       ELSE UNCHANGED <<centralDistribution, centralFrom>>
    /\ LET detailedIdx == getDetailedColumnIndex(i, j, tIdx)
       IN  IF detailedIdx # -1
           THEN /\ detailedPaths' = ArrayStore(detailedPaths, detailedIdx, terminalPrices)
                /\ detailedFrom' =
                       ArrayStore(detailedFrom, detailedIdx,
                                  IF detailedIdx \in DOMAIN detailedFrom
                                  THEN Append(detailedFrom[detailedIdx], <<i, j, tIdx>>)
                                  ELSE << <<i, j, tIdx>> >>)
           ELSE UNCHANGED <<detailedPaths, detailedFrom>>
    /\ samples' = ArrayStore(samples, <<i, j, tIdx>>, terminalPrices)
    /\ kIdx' = 0
    /\ pc' = "strikes"
    /\ UNCHANGED <<runParams, s0List, volList, results, i, j, tIdx, terminalPrices, p,
                   u, v, rng>>
    /\ UNCHANGED <<appVars, countVars>>
    /\ UNCHANGED viewVars
    /\ workbook' = <<>>

\* lines 139-159: one strike is valued and its row appended
ValueStrike ==
    /\ pc = "strikes"
    /\ kIdx < K
    /\ results' = Append(results, ScenarioRow(runParams.strikes[kIdx + 1]))
    /\ kIdx' = kIdx + 1
    /\ valuations' = valuations + 1
    /\ UNCHANGED <<pc, runParams, s0List, volList, centralDistribution, detailedPaths,
                   i, j, tIdx, terminalPrices, p, u, v, rng>>
    /\ UNCHANGED <<appVars, histVars, simulated, draws, zeroDraws, callDrawn>>
    /\ UNCHANGED viewVars
    /\ workbook' = <<>>

\* faulty variant: the loops advance before the last strike is valued
NextTriple_BeforeLastStrike ==
    /\ pc = "strikes"
    /\ kIdx >= K - 1
    /\ i' = NextTripleOf(i, j, tIdx, M)[1]
    /\ j' = NextTripleOf(i, j, tIdx, M)[2]
    /\ tIdx' = NextTripleOf(i, j, tIdx, M)[3]
    /\ pc' = "loop"
    /\ UNCHANGED <<runParams, s0List, volList, results, centralDistribution, detailedPaths,
                   terminalPrices, p, u, v, kIdx, rng>>
    /\ UNCHANGED <<appVars, histVars, countVars>>
    /\ UNCHANGED viewVars
    /\ workbook' = <<>>

\* the strikes are exhausted: the loops advance to the next triple
NextTriple ==
    /\ pc = "strikes"
    /\ kIdx >= K
    /\ i' = NextTripleOf(i, j, tIdx, M)[1]
    /\ j' = NextTripleOf(i, j, tIdx, M)[2]
    /\ tIdx' = NextTripleOf(i, j, tIdx, M)[3]
    /\ pc' = "loop"
    /\ UNCHANGED <<runParams, s0List, volList, results, centralDistribution, detailedPaths,
                   terminalPrices, p, u, v, kIdx, rng>>
    /\ UNCHANGED <<appVars, histVars, countVars>>
    /\ UNCHANGED viewVars
    /\ workbook' = <<>>

\* lines 164-168: the loops are exhausted, the result is returned
Return ==
    /\ pc = "loop"
    /\ i >= 5
    /\ pc' = "returned"
    /\ UNCHANGED <<runParams, s0List, volList, results, centralDistribution, detailedPaths,
                   i, j, tIdx, terminalPrices, p, u, v, kIdx, rng>>
    /\ UNCHANGED <<appVars, histVars, countVars>>
    /\ UNCHANGED viewVars
    /\ workbook' = <<>>

runFullSimulation ==
    \/ GenerateAxes
    \/ BeginTriple
    \/ CallGaussianRandom
    \/ DrawU
    \/ DrawV
    \/ StorePath
    \/ RetainSample
    \/ ValueStrike
    \/ NextTriple
    \/ Return

\* the locals of a call before it starts and after its result was consumed
NoRun ==
    /\ s0List = <<>>
    /\ volList = <<>>
    /\ results = <<>>
    /\ centralDistribution = <<>>
    /\ detailedPaths = EmptyDetailedPaths
    /\ i = 0 /\ j = 0 /\ tIdx = 0
    /\ terminalPrices = <<>>
    /\ p = 0 /\ u = 0 /\ v = 0 /\ kIdx = 0
    /\ samples = << >>
    /\ centralFrom = <<>>
    /\ detailedFrom = [c \in 0..26 |-> <<>>]
    /\ simulated = <<>>
    /\ valuations = 0
    /\ draws = 0
    /\ zeroDraws = 0
    /\ callDrawn = <<>>

AppAtRest ==
    /\ isSimulating = FALSE
    /\ appResults = <<>>
    /\ selectedMaturity = 0
    /\ selectedStrike = 0
    /\ runs = 0
    /\ edits = 0
    /\ isExporting = FALSE
    /\ exportJob = <<>>
    /\ workbook = <<>>
    /\ timers = <<>>
    /\ resultRun = <<>>

\* a caller invokes runFullSimulation(params) once, with any parameters of ParamSpace
Init ==
    /\ params \in ParamSpace
    /\ runParams = params
    /\ rng \in Seeds
    /\ pc = "axes"
    /\ AppAtRest
    /\ NoRun

Next == runFullSimulation

Spec == Init /\ [][Next]_vars

-----------------------------------------------------------------------------
\* Sidebar (part_000 68-104) and App (App.tsx 44-63)

\* What the Sidebar inputs of the model can be set to.  FormattedNumberInput accepts
\* digits, commas and dots only (part_000 line 38), so no negative number is emitted.
ParamEdits ==
    { <<"nPaths", 0>>, <<"nPaths", HugePaths>>, <<"s0", 200>> }
MaturityEdits == { <<1, 1>> }
\* the tokens of the strikes textarea after the split (part_000 line 98); NaN is a token
\* parseFloat cannot read
StrikesTexts == { <<NaN>>, <<150, NaN, 100>> }

\* an input is usable: not disabled, and no handler is running
\* faulty variant: the inputs ignore isSimulating
InputsEnabled_NeverDisabled == pc \in {"idle", "timer"}
InputsEnabled == ~isSimulating /\ pc \in {"idle", "timer"}

\* part_000 70-75
updateParam(field, value) ==
    /\ InputsEnabled
    /\ edits < MaxEdits
    /\ params' = [params EXCEPT ![field] = value]
    /\ edits' = edits + 1
    /\ UNCHANGED <<isSimulating, appResults, selectedMaturity, selectedStrike, runs>>
    /\ UNCHANGED <<runVars, histVars, countVars>>
    /\ UNCHANGED viewVars
    /\ workbook' = <<>>

\* part_000 79-82: the copy of maturities, padded with 0 up to index, with val at index
RECURSIVE PadTo(_, _)
PadTo(mats, index) == IF Len(mats) <= index THEN PadTo(Append(mats, 0), index) ELSE mats
WithMaturity(mats, index, val) == [PadTo(mats, index) EXCEPT ![index + 1] = val]

\* part_000 77-85
updateMaturity(index, val) ==
    /\ InputsEnabled
    /\ edits < MaxEdits
    /\ params' = [params EXCEPT !.maturities = WithMaturity(params.maturities, index, val)]
    /\ edits' = edits + 1
    /\ UNCHANGED <<isSimulating, appResults, selectedMaturity, selectedStrike, runs>>
    /\ UNCHANGED <<runVars, histVars, countVars>>
    /\ UNCHANGED viewVars
    /\ workbook' = <<>>

\* part_000 101: parts.map(parseFloat).filter(n => !isNaN(n))
RECURSIVE ParseStrikes(_)
ParseStrikes(tokens) ==
    IF tokens = <<>> THEN <<>>
    ELSE IF Head(tokens) = NaN THEN ParseStrikes(Tail(tokens))
    ELSE <<Head(tokens)>> \o ParseStrikes(Tail(tokens))

\* part_000 97-104
handleStrikesBlur(tokens) ==
    /\ InputsEnabled
    /\ edits < MaxEdits
    /\ params' = [params EXCEPT !.strikes = ParseStrikes(tokens)]
    /\ edits' = edits + 1
    /\ UNCHANGED <<isSimulating, appResults, selectedMaturity, selectedStrike, runs>>
    /\ UNCHANGED <<runVars, histVars, countVars>>
    /\ UNCHANGED viewVars
    /\ workbook' = <<>>

\* faulty variant: the Run button is not disabled while isSimulating
handleRunSimulation_NotDisabled ==
    /\ pc \in {"idle", "timer"}
    /\ runs < MaxRuns
    /\ isSimulating' = TRUE
    /\ runParams' = params
    /\ pc' = "timer"
    /\ timers' = Append(timers, "run")
    /\ runs' = runs + 1
    /\ UNCHANGED <<params, appResults, selectedMaturity, selectedStrike, edits>>
    /\ UNCHANGED <<s0List, volList, results, centralDistribution, detailedPaths,
                   i, j, tIdx, terminalPrices, p, u, v, kIdx, rng>>
    /\ UNCHANGED <<histVars, countVars>>
    /\ UNCHANGED <<isExporting, exportJob, resultRun>>
    /\ workbook' = <<>>

\* App.tsx 44-47, 216-218: the Run button (disabled while isSimulating) is clicked;
\* the callback closes over the params of this render
handleRunSimulation ==
    /\ ~isSimulating
    /\ pc = "idle"
    /\ runs < MaxRuns
    /\ isSimulating' = TRUE
    /\ runParams' = params
    /\ pc' = "timer"
    /\ timers' = Append(timers, "run")
    /\ runs' = runs + 1
    /\ UNCHANGED <<params, appResults, selectedMaturity, selectedStrike, edits>>
    /\ UNCHANGED <<s0List, volList, results, centralDistribution, detailedPaths,
                   i, j, tIdx, terminalPrices, p, u, v, kIdx, rng>>
    /\ UNCHANGED <<histVars, countVars>>
    /\ UNCHANGED <<isExporting, exportJob, resultRun>>
    /\ workbook' = <<>>

\* App.tsx 47-49: the timer fires and the callback calls runFullSimulation(params)
TimerFires ==
    /\ pc = "timer"
    /\ timers # <<>>
    /\ Head(timers) = "run"
    /\ timers' = Tail(timers)
    /\ pc' = "axes"
    /\ UNCHANGED <<runParams, s0List, volList, results, centralDistribution, detailedPaths,
                   i, j, tIdx, terminalPrices, p, u, v, kIdx, rng>>
    /\ UNCHANGED <<appVars, histVars, countVars>>
    /\ UNCHANGED <<isExporting, exportJob, resultRun>>
    /\ workbook' = <<>>

\* the callback has ended: its locals are gone
DropLocals ==
    /\ s0List' = <<>>
    /\ volList' = <<>>
    /\ results' = <<>>
    /\ centralDistribution' = <<>>
    /\ detailedPaths' = EmptyDetailedPaths
    /\ i' = 0 /\ j' = 0 /\ tIdx' = 0
    /\ terminalPrices' = <<>>
    /\ p' = 0 /\ u' = 0 /\ v' = 0 /\ kIdx' = 0
    /\ samples' = << >>
    /\ centralFrom' = <<>>
    /\ detailedFrom' = [c \in 0..26 |-> <<>>]
    /\ simulated' = <<>>
    /\ valuations' = 0
    /\ draws' = 0
    /\ zeroDraws' = 0
    /\ callDrawn' = <<>>

\* lines 164-168: the value runFullSimulation returns
SimulationResult ==
    [results |-> results, centralDistribution |-> centralDistribution,
     detailedPaths |-> detailedPaths]

\* what setResults publishes when the call returned (App.tsx line 50)
Published(simResults) == <<simResults>>

\* App.tsx 49-55, 59-61: the call returned; the result and the dropdown defaults are set
RunSucceeded ==
    /\ pc = "returned"
    /\ appResults' = Published(SimulationResult)
    /\ IF Len(results) > 0
       THEN /\ selectedMaturity' = runParams.maturities[1]
            /\ selectedStrike' = runParams.strikes[1]
       ELSE UNCHANGED <<selectedMaturity, selectedStrike>>
    /\ isSimulating' = FALSE
    /\ pc' = "idle"
    /\ DropLocals
    /\ resultRun' = <<[params |-> runParams, detailedFrom |-> detailedFrom]>>
    /\ UNCHANGED <<params, runs, edits, runParams, rng>>
    /\ UNCHANGED <<isExporting, exportJob, timers>>
    /\ workbook' = <<>>

\* what the catch branch leaves in the results state (App.tsx 56-58: it sets nothing)
\* faulty variant: the catch branch publishes what the failed call had built
AfterFailure_PublishesPartial(previous, partial) == partial
AfterFailure(previous, partial) == previous

\* faulty variant: isSimulating is reset in the try block only, not in a finally block
RunFailed_NoFinally ==
    /\ pc = "thrown"
    /\ appResults' = AfterFailure(appResults, <<SimulationResult>>)
    /\ isSimulating' = isSimulating
    /\ pc' = "idle"
    /\ DropLocals
    /\ UNCHANGED <<params, selectedMaturity, selectedStrike, runs, edits, runParams, rng>>
    /\ UNCHANGED viewVars
    /\ workbook' = <<>>

\* App.tsx 56-61: the call threw; the error is reported and isSimulating is reset
RunFailed ==
    /\ pc = "thrown"
    /\ appResults' = AfterFailure(appResults, <<SimulationResult>>)
    /\ isSimulating' = FALSE
    /\ pc' = "idle"
    /\ DropLocals
    /\ UNCHANGED <<params, selectedMaturity, selectedStrike, runs, edits, runParams, rng>>
    /\ UNCHANGED viewVars
    /\ workbook' = <<>>

\* the App after mount
InitApp ==
    /\ params = DefaultParams
    /\ runParams = params
    /\ rng \in Seeds
    /\ pc = "idle"
    /\ AppAtRest
    /\ NoRun

NextApp ==
    \/ \E e \in ParamEdits : updateParam(e[1], e[2])
    \/ \E e \in MaturityEdits : updateMaturity(e[1], e[2])
    \/ \E tokens \in StrikesTexts : handleStrikesBlur(tokens)
    \/ handleRunSimulation
    \/ TimerFires
    \/ runFullSimulation
    \/ RunSucceeded
    \/ RunFailed

AppSpec == InitApp /\ [][NextApp]_vars

\* The event loop runs a queued timer callback, and a callback that has started runs to
\* its end: App.tsx 47-61 is one synchronous function, runFullSimulation has no await.
\* Clicks and edits are the user's and are not forced.
CallbackStep == TimerFires \/ runFullSimulation \/ RunSucceeded \/ RunFailed

\* the runs of the App and the edits that decide how a run ends: with no path, with
\* a path count Float64Array rejects, from another spot
NextRuns ==
    \/ \E e \in ParamEdits : updateParam(e[1], e[2])
    \/ handleRunSimulation
    \/ TimerFires
    \/ runFullSimulation
    \/ RunSucceeded
    \/ RunFailed

FairRunsSpec == InitApp /\ [][NextRuns]_vars /\ WF_vars(CallbackStep)

-----------------------------------------------------------------------------
\* Properties

\* the (spotIndex, volIndex, maturityIndex) triples of a run with m maturities
Triples(m) == {<<a, b, t>> : a \in 0..4, b \in 0..4, t \in 0..(m - 1)}
Column(tr) == getDetailedColumnIndex(tr[1], tr[2], tr[3])
Completed == pc = "returned"

\* C1: a call with nPaths >= 1 that returns, returns exactly 25 * M * K rows
C1_RowCount ==
    (Completed /\ runParams.nPaths >= 1) => Len(results) = 25 * M * K

C1_Witness ==
    /\ Completed
    /\ runParams.nPaths >= 1
    /\ M >= 3
    /\ K >= 2
    /\ Len(results) = 25 * M * K

\* the row position of (spotIndex a, volIndex b, maturityIndex t, strike index k)
RowPosition(a, b, t, k) == ((a * 5 + b) * M + t) * K + k

\* C2: the rows are exhaustive over spot x vol x maturity x strike and in the order
\* spot -> vol -> maturity -> strike: the row at position ((i*5 + j)*M + tIdx)*K + kIdx
\* carries s0List[i], volList[j], maturities[tIdx], strikes[kIdx]; while the run is
\* under way each row is appended at the position of the triple and strike being valued
C2_RowOrder ==
    /\ (pc = "strikes" /\ kIdx > 0) =>
          /\ Len(results) = RowPosition(i, j, tIdx, kIdx - 1) + 1
          /\ results[Len(results)].s0 = s0List[i + 1]
          /\ results[Len(results)].vol = volList[j + 1]
          /\ results[Len(results)].t = runParams.maturities[tIdx + 1]
          /\ results[Len(results)].k = runParams.strikes[kIdx]
    /\ Completed =>
          \A a \in 0..4, b \in 0..4, t \in 0..(M - 1), k \in 0..(K - 1) :
              /\ RowPosition(a, b, t, k) + 1 \in 1..Len(results)
              /\ results[RowPosition(a, b, t, k) + 1].s0 = s0List[a + 1]
              /\ results[RowPosition(a, b, t, k) + 1].vol = volList[b + 1]
              /\ results[RowPosition(a, b, t, k) + 1].t = runParams.maturities[t + 1]
              /\ results[RowPosition(a, b, t, k) + 1].k = runParams.strikes[k + 1]

C2_Witness ==
    /\ Completed
    /\ M >= 3
    /\ K >= 2
    /\ runParams.s0Step # 0
    /\ runParams.volStep # 0
    /\ results[RowPosition(4, 3, 2, 1) + 1].s0 = s0List[5]
    /\ results[RowPosition(4, 3, 2, 1) + 1].vol = volList[4]
    /\ results[RowPosition(4, 3, 2, 1) + 1].k = runParams.strikes[2]

\* the triples a run has simulated so far, and those among them the mapper gave a column
Simulated == DOMAIN samples
Mapped == {tr \in Simulated : Column(tr) # -1}

\* C3: in a completed run with M = 3 maturities, exactly 27 of the 75 simulated triples
\* are mapped to a column, and their columns are a permutation of 0..26 (no collision)
C3_MappingCompleteness ==
    (Completed /\ M = 3) =>
        /\ Simulated = Triples(3)
        /\ Cardinality(Simulated) = 75
        /\ Cardinality(Mapped) = 27
        /\ {Column(tr) : tr \in Mapped} = 0..26
        /\ \A tr1 \in Mapped, tr2 \in Mapped : Column(tr1) = Column(tr2) => tr1 = tr2
        /\ \A c \in 0..26 : Len(detailedFrom[c]) = 1 /\ Column(detailedFrom[c][1]) = c

C3_Witness ==
    /\ Completed
    /\ M = 3
    /\ runParams.nPaths >= 1
    /\ Cardinality(Mapped) = 27
    /\ detailedFrom[26] = << <<3, 3, 2>> >>

\* the table of section 4.5: offsets within a block, by (spotIndex, volIndex)
TableOffset(sIdx, vIdx) ==
    CASE sIdx = 1 /\ vIdx = 2 -> 0
      [] sIdx = 1 /\ vIdx = 1 -> 1
      [] sIdx = 1 /\ vIdx = 3 -> 2
      [] sIdx = 2 /\ vIdx = 1 -> 3
      [] sIdx = 2 /\ vIdx = 3 -> 4
      [] sIdx = 3 /\ vIdx = 2 -> 5
      [] sIdx = 3 /\ vIdx = 1 -> 6
      [] sIdx = 3 /\ vIdx = 3 -> 7
      [] OTHER -> -1
TableColumn(sIdx, vIdx, t) ==
    IF sIdx = 2 /\ vIdx = 2 THEN t
    ELSE IF TableOffset(sIdx, vIdx) = -1 THEN -1
    ELSE 3 + 8 * t + TableOffset(sIdx, vIdx)

\* the columns a triple's sample was assigned to during the run
StoredAt(tr) ==
    {c \in DOMAIN detailedFrom : \E n \in 1..Len(detailedFrom[c]) : detailedFrom[c][n] = tr}

\* C4: for maturityIndex 0..2 the mapper reproduces the table: (2,2) -> maturityIndex,
\* the eight listed pairs -> 3 + 8*maturityIndex + offset, every pair with index 0 or 4
\* on either axis -> unmapped (the function is compared with the table on entry of
\* each call); and the sample of an unmapped triple is never stored in
\* detailedPaths: a retained triple with maturityIndex <= 2 is stored at its table
\* column and nowhere else, an unmapped one nowhere
C4_MappingTable ==
    /\ pc = "axes" =>
        \A sIdx \in 0..4, vIdx \in 0..4, t \in 0..2 :
          /\ getDetailedColumnIndex(sIdx, vIdx, t) = TableColumn(sIdx, vIdx, t)
          /\ (sIdx \in {0, 4} \/ vIdx \in {0, 4}) => getDetailedColumnIndex(sIdx, vIdx, t) = -1
    /\ (pc = "strikes" /\ tIdx <= 2) =>
          StoredAt(<<i, j, tIdx>>) = {TableColumn(i, j, tIdx)} \ {-1}
    /\ Completed =>
          \A tr \in Simulated :
              tr[3] <= 2 => StoredAt(tr) = {TableColumn(tr[1], tr[2], tr[3])} \ {-1}

C4_Witness ==
    /\ pc = "strikes"
    /\ runParams.nPaths >= 1
    /\ i = 4 /\ j = 2 /\ tIdx = 2
    /\ <<4, 2, 2>> \in Simulated
    /\ StoredAt(<<4, 2, 2>>) = {}
    /\ detailedFrom[24] = << <<3, 2, 2>> >>
    /\ detailedPaths[24] = samples[<<3, 2, 2>>]

\* C5 (as claimed): for every M >= 1 and every triple (spotIndex, volIndex in 0..4,
\* maturityIndex in 0..M-1) the run queries the mapper for, the mapper returns a column
\* in 0..26 or unmapped (-1)
C5_MapperRange ==
    \A tr \in Simulated : Column(tr) \in (0..26) \cup {-1}

Populated == {c \in DOMAIN detailedPaths : detailedPaths[c] # <<>>}

\* C6: after a call with nPaths >= 1 and M <= 3 maturities, slot c of the 27 slots is
\* populated iff c is the column of some triple of the run; exactly 9 * M slots are
\* populated, each with the full nPaths-long sample simulated for its triple; every
\* other slot is the empty array
C6_DetailedSlots ==
    (Completed /\ runParams.nPaths >= 1 /\ M <= 3) =>
        /\ DOMAIN detailedPaths = 0..26
        /\ \A c \in 0..26 : c \in Populated <=> \E tr \in Triples(M) : Column(tr) = c
        /\ Cardinality(Populated) = 9 * M
        /\ \A tr \in Triples(M) :
              Column(tr) # -1 =>
                 /\ detailedPaths[Column(tr)] = samples[tr]
                 /\ Len(detailedPaths[Column(tr)]) = runParams.nPaths
        /\ \A c \in (0..26) \ Populated : detailedPaths[c] = <<>>

C6_Witness ==
    /\ Completed
    /\ runParams.nPaths = 2
    /\ M = 2
    /\ Cardinality(Populated) = 18
    /\ detailedPaths[18] = samples[<<3, 3, 1>>]
    /\ Len(detailedPaths[18]) = 2
    /\ detailedPaths[2] = <<>>
    /\ detailedPaths[19] = <<>>

\* C7 (as claimed): for any M >= 1, M > 3 included, the detailedPaths a call returns has
\* exactly 27 slots, each empty or a sample of length nPaths
C7_FixedSize ==
    (Completed /\ M >= 1) =>
        /\ DOMAIN detailedPaths = 0..26
        /\ ArrayLength(detailedPaths) = 27
        /\ \A c \in DOMAIN detailedPaths :
              detailedPaths[c] = <<>> \/ Len(detailedPaths[c]) = runParams.nPaths

\* C8 (as claimed): for any maturities list with at least one entry, repeated values
\* included, the centralDistribution a call returns is the sample of the triple
\* (2, 2, 0) and of no other, and has length nPaths
C8_CentralIdentity ==
    (Completed /\ M >= 1 /\ runParams.nPaths >= 1) =>
        /\ centralFrom = << <<2, 2, 0>> >>
        /\ centralDistribution = samples[<<2, 2, 0>>]
        /\ Len(centralDistribution) = runParams.nPaths

InvalidParams == runParams.nPaths <= 0 \/ M = 0 \/ K = 0

\* C9 (as claimed): parameters with nPaths <= 0, no maturity or no strike are rejected:
\* no path is simulated for them and no result is returned
C9_RejectsInvalid ==
    (InvalidParams /\ pc # "axes") =>
        /\ ~Completed
        /\ Simulated = {}
        /\ pc \in {"loop", "thrown"}

\* the last run of the App failed: it was started, it is over, and its parameters make
\* the allocation of the first triple throw
LastRunFailed ==
    /\ runs >= 1
    /\ pc = "idle"
    /\ M >= 1
    /\ Float64ArrayThrows(runParams.nPaths)

\* C10: a failed run publishes nothing: the step that handles the exception leaves the
\* results state, selectedMaturity and selectedStrike as they were, and the results
\* state only ever changes to the complete value a call returned
C10_FailurePublishesNothing ==
    [][ /\ pc = "thrown" =>
            /\ appResults' = appResults
            /\ selectedMaturity' = selectedMaturity
            /\ selectedStrike' = selectedStrike
        /\ appResults' # appResults =>
            /\ pc = "returned"
            /\ appResults' = <<SimulationResult>>
      ]_vars

C10_Witness ==
    /\ LastRunFailed
    /\ runs = 2
    /\ ~isSimulating
    /\ appResults # <<>>
    /\ Len(appResults[1].results) = 150
    /\ selectedMaturity = 1
    /\ selectedStrike = 100

-----------------------------------------------------------------------------
\* the strike is at or above every terminal price of the sample
OutOfTheMoney(sample, k) == \A n \in DOMAIN sample : sample[n] <= k

-----------------------------------------------------------------------------
\* C12: at maturity 0 every terminal price written for a scenario equals that scenario's
\* spot exactly, whatever the volatility, r and q; the run throws for no other reason
\* than the allocation of the sample; and when the first maturity is 0 every element of
\* the returned centralDistribution equals the spot pivot s0
C12_ZeroMaturity ==
    /\ (pc \in {"paths", "drawU", "strikes"} /\ currentT = 0) =>
          \A n \in 1..p : terminalPrices[n] = currentS0
    /\ pc = "thrown" => Float64ArrayThrows(runParams.nPaths)
    /\ (Completed /\ M >= 1 /\ runParams.maturities[1] = 0) =>
          /\ runParams.nPaths >= 1 => Len(centralDistribution) = runParams.nPaths
          /\ \A n \in DOMAIN centralDistribution : centralDistribution[n] = runParams.s0

\* a completed run whose first maturity is 0, with volatility and rate above zero: its
\* central distribution is nPaths copies of s0 and the outer scenarios of maturity 0
\* hold their own spot
C12_Witness ==
    /\ Completed
    /\ M >= 2
    /\ runParams.maturities[1] = 0
    /\ runParams.maturities[2] # 0
    /\ runParams.nPaths = MaxPaths
    /\ runParams.vol > 0
    /\ runParams.r > 0
    /\ centralDistribution = [n \in 1..MaxPaths |-> runParams.s0]
    /\ samples[<<0, 4, 0>>] = [n \in 1..MaxPaths |-> s0List[1]]
    /\ s0List[1] # runParams.s0
    /\ \E n \in 1..MaxPaths : samples[<<2, 2, 1>>][n] # runParams.s0

-----------------------------------------------------------------------------
\* the number of triples the loops visit before (a, b, t)
TripleIndex(a, b, t) == (a * 5 + b) * M + t

\* C13: a run simulates one path set per triple, 25*M in all whatever K is, and performs
\* 25*M*K payoff valuations; while the strikes of a triple are valued no further path set
\* is simulated, every row of the triple is priced on the one sample simulated for it,
\* and that sample is the one its detailed slot holds when the triple has a slot
C13_WorkCounts ==
    /\ pc \in {"paths", "drawU", "strikes"} =>
          /\ Len(simulated) = TripleIndex(i, j, tIdx) + 1
          /\ simulated[Len(simulated)] = <<i, j, tIdx>>
    /\ pc = "strikes" =>
          /\ valuations = TripleIndex(i, j, tIdx) * K + kIdx
          /\ terminalPrices = samples[<<i, j, tIdx>>]
          /\ kIdx > 0 =>
                results[Len(results)].price =
                    Price(samples[<<i, j, tIdx>>], runParams.strikes[kIdx], runParams.nPaths)
          /\ Column(<<i, j, tIdx>>) # -1 =>
                detailedPaths[Column(<<i, j, tIdx>>)] = samples[<<i, j, tIdx>>]
    /\ Completed =>
          /\ Len(simulated) = 25 * M
          /\ {simulated[n] : n \in 1..Len(simulated)} = Triples(M)
          /\ valuations = 25 * M * K

\* both strikes of the mapped triple (3, 2, 1) of a run of 3 maturities have been valued,
\* at different prices, on the one sample of MaxPaths paths that its slot 16 holds
C13_Witness ==
    /\ pc = "strikes"
    /\ M = 3
    /\ K = 2
    /\ kIdx = 2
    /\ runParams.nPaths = MaxPaths
    /\ <<i, j, tIdx>> = <<3, 2, 1>>
    /\ Len(simulated) = 53
    /\ valuations = 106
    /\ Len(terminalPrices) = MaxPaths
    /\ detailedPaths[16] = terminalPrices
    /\ results[Len(results)].price # results[Len(results) - 1].price

-----------------------------------------------------------------------------
\* The grid generators over a wider range of pivots and steps (part_001 14-37, 79-84)

\* pivots and steps of the spot axis (money in 1/100, whole percent) and of the vol axis
\* (1/100): negative, zero and positive pivots; negative, zero and positive steps, and
\* spot steps of 100% and more
SpotPivots == {-100, 0, 100, 200}
SpotSteps == {-10, 0, 10, 50, 100, 150}
VolPivots == {-20, 0, 20}
VolSteps == {-5, 0, 5}

GridParamSpace ==
    {MakeParams([r |-> 3, q |-> 0, s0 |-> sp, s0Step |-> ss, vol |-> vp, volStep |-> vs],
                1, <<1>>, <<100>>) :
        sp \in SpotPivots, ss \in SpotSteps, vp \in VolPivots, vs \in VolSteps}

\* runFullSimulation is entered with any of these parameters
InitGrid ==
    /\ params \in GridParamSpace
    /\ runParams = params
    /\ rng = 0
    /\ pc = "axes"
    /\ AppAtRest
    /\ NoRun

\* lines 81, 84: the two generators are applied
NextGrid == GenerateAxes

GridSpec == InitGrid /\ [][NextGrid]_vars

AxesGenerated == pc = "loop"
StrictlyAscending(axis) == \A n \in 1..(Len(axis) - 1) : axis[n] < axis[n + 1]
Collapsed(axis) == \A n \in 1..Len(axis) : axis[n] = axis[1]

\* C14 as stated: both generators return exactly 5 values whose element at index 2 is
\* the pivot, strictly ascending whenever the step is not 0
C14_AscendingWheneverStepNonZero ==
    AxesGenerated =>
        /\ Len(s0List) = 5 /\ s0List[3] = runParams.s0
        /\ Len(volList) = 5 /\ volList[3] = runParams.vol
        /\ runParams.s0Step # 0 => StrictlyAscending(s0List)
        /\ runParams.volStep # 0 => StrictlyAscending(volList)

\* C14, amended: both generators return exactly 5 values whose element at index 2 is the
\* pivot; the arithmetic values are strictly ascending whenever the step is above 0, the
\* geometric values whenever the pivot is above 0 and the step is above 0 and below 100%
C14_AscendingForPositiveStep ==
    AxesGenerated =>
        /\ Len(s0List) = 5 /\ s0List[3] = runParams.s0
        /\ Len(volList) = 5 /\ volList[3] = runParams.vol
        /\ (runParams.s0 > 0 /\ runParams.s0Step > 0 /\ runParams.s0Step < 100) =>
              StrictlyAscending(s0List)
        /\ runParams.volStep > 0 => StrictlyAscending(volList)

C14_Witness ==
    /\ AxesGenerated
    /\ runParams.s0 = 100 /\ runParams.s0Step = 10
    /\ s0List = <<81, 90, 100, 110, 121>>
    /\ runParams.vol = 20 /\ runParams.volStep = 5
    /\ volList = <<10, 15, 20, 25, 30>>

\* C15: with s = stepPercent / 100 the spot axis is p(1-s)^2, p(1-s), p, p(1+s), p(1+s)^2
\* for the pivot p = s0, and the vol axis is p-2s, p-s, p, p+s, p+2s for the pivot
\* p = vol / 100 (the decimal value of the volatility), both in index order
C15_AxisFormulas ==
    AxesGenerated =>
        /\ 10000 * s0List[1] = runParams.s0 * (100 - runParams.s0Step) * (100 - runParams.s0Step)
        /\ 100 * s0List[2] = runParams.s0 * (100 - runParams.s0Step)
        /\ s0List[3] = runParams.s0
        /\ 100 * s0List[4] = runParams.s0 * (100 + runParams.s0Step)
        /\ 10000 * s0List[5] = runParams.s0 * (100 + runParams.s0Step) * (100 + runParams.s0Step)
        /\ volList = [n \in 1..5 |-> runParams.vol + (n - 3) * runParams.volStep]

C15_Witness ==
    /\ AxesGenerated
    /\ runParams.s0 = 200 /\ runParams.s0Step = 50
    /\ s0List = <<50, 100, 200, 300, 450>>
    /\ runParams.vol = 20 /\ runParams.volStep = -5
    /\ volList = <<30, 25, 20, 15, 10>>

\* C16 as stated: both generators return an axis for every input, and a zero pivot or a
\* zero step collapses either axis to five equal values
C16_ZeroPivotOrStepCollapses ==
    AxesGenerated =>
        /\ Len(s0List) = 5 /\ Len(volList) = 5
        /\ (runParams.s0 = 0 \/ runParams.s0Step = 0) => Collapsed(s0List)
        /\ (runParams.vol = 0 \/ runParams.volStep = 0) => Collapsed(volList)

\* C16, amended: both generators return an axis for every input; a zero step collapses
\* either axis to five values equal to the pivot; a zero pivot collapses the geometric
\* axis to five zeros, and leaves the arithmetic axis -2s, -s, 0, s, 2s
C16_ZeroStepCollapses ==
    AxesGenerated =>
        /\ Len(s0List) = 5 /\ Len(volList) = 5
        /\ runParams.s0Step = 0 => s0List = [n \in 1..5 |-> runParams.s0]
        /\ runParams.volStep = 0 => volList = [n \in 1..5 |-> runParams.vol]
        /\ runParams.s0 = 0 => s0List = [n \in 1..5 |-> 0]
        /\ runParams.vol = 0 => volList = [n \in 1..5 |-> (n - 3) * runParams.volStep]

C16_Witness ==
    /\ AxesGenerated
    /\ runParams.s0 = 0 /\ runParams.s0Step = 10
    /\ s0List = <<0, 0, 0, 0, 0>>
    /\ runParams.vol = 20 /\ runParams.volStep = 0
    /\ volList = <<20, 20, 20, 20, 20>>

-----------------------------------------------------------------------------
\* C17: within one run centralDistribution is assigned a sample at most once, each slot
\* of detailedPaths is assigned a sample at most once, and a row appended to results is
\* never modified, overwritten or removed
C17_WriteOnce ==
    [][ /\ Len(centralFrom') <= 1
        /\ \A c \in DOMAIN detailedFrom' : Len(detailedFrom'[c]) <= 1
        /\ Len(results') >= Len(results)
        /\ SubSeq(results', 1, Len(results)) = results
      ]_vars

-----------------------------------------------------------------------------
\* the natural identity of a row, and the identities of the rows built so far
RowKey(row) == <<row.s0, row.vol, row.t, row.k>>
RowKeys == {RowKey(results[n]) : n \in 1..Len(results)}
Distinct(seq) == \A m \in 1..Len(seq), n \in 1..Len(seq) : m # n => seq[m] # seq[n]

\* C18 as stated: no two rows of the results of a run share the same (s0, vol, t, k)
C18_UniqueKeys ==
    Completed => Cardinality(RowKeys) = Len(results)

\* C18, amended: no two rows of the results of a run share the same (s0, vol, t, k)
\* when the values of the spot axis, the values of the vol axis, the maturities and the
\* strikes are each pairwise distinct
C18_UniqueKeysOfDistinctInputs ==
    (/\ Completed
     /\ Distinct(s0List)
     /\ Distinct(volList)
     /\ Distinct(runParams.maturities)
     /\ Distinct(runParams.strikes)) =>
        Cardinality(RowKeys) = Len(results)

C18_Witness ==
    /\ Completed
    /\ Distinct(s0List)
    /\ Distinct(volList)
    /\ runParams.maturities = <<0, 1, 4>>
    /\ runParams.strikes = <<100, 150>>
    /\ Len(results) = 150
    /\ Cardinality(RowKeys) = 150

-----------------------------------------------------------------------------
\* C19: from the step in which handleRunSimulation sets isSimulating until its timer
\* callback has finished, isSimulating stays set and no step changes params; the
\* callback computes on the params of the click, which are still the current params
C19_ParamsFrozenDuringRun ==
    [][ /\ pc # "idle" => isSimulating
        /\ isSimulating =>
              /\ params' = params
              /\ runParams = params
              /\ isSimulating' => runParams' = runParams
        /\ (~isSimulating /\ isSimulating') =>
              /\ runParams' = params
              /\ params' = params
      ]_vars

\* the second run, started after the spot was edited to 200, is valuing strikes on the
\* edited params
C19_Witness ==
    /\ isSimulating
    /\ runs = 2
    /\ edits >= 1
    /\ pc = "strikes"
    /\ kIdx >= 1
    /\ params.s0 = 200
    /\ params # DefaultParams
    /\ runParams = params
    /\ results[Len(results)].s0 # DefaultParams.s0

-----------------------------------------------------------------------------
\* C20: within one run both axes are generated once, before any path is simulated; the
\* nPaths paths of a triple are all simulated before any of its strikes is valued; the
\* K valuations of a triple are all finished before the simulation of the next triple
\* starts; and the result is returned only after all 25*M triples were processed
C20_RunOrder ==
    [][ /\ (s0List' # s0List \/ volList' # volList) =>
              /\ pc = "axes"
              /\ s0List = <<>> /\ volList = <<>>
              /\ simulated = <<>> /\ valuations = 0
        /\ pc' = "axes" => pc = "axes"
        /\ simulated' # simulated =>
              /\ Len(s0List) = 5 /\ Len(volList) = 5
              /\ valuations = Len(simulated) * K
        /\ (p' # p /\ p' # 0) =>
              /\ simulated[Len(simulated)] = <<i, j, tIdx>>
              /\ valuations = (Len(simulated) - 1) * K
        /\ valuations' # valuations =>
              /\ simulated[Len(simulated)] = <<i, j, tIdx>>
              /\ p = runParams.nPaths
              /\ valuations \in ((Len(simulated) - 1) * K)..(Len(simulated) * K - 1)
        /\ (pc' = "returned" /\ pc # "returned") =>
              /\ Len(simulated) = 25 * M
              /\ valuations = 25 * M * K
      ]_vars

\* the run is simulating the second path of its 41st triple, with the 2 strikes of each
\* of the 40 triples before it valued and none of its own
C20_Witness ==
    /\ pc = "drawU"
    /\ M = 3
    /\ K = 2
    /\ runParams.nPaths = MaxPaths
    /\ p = 1
    /\ Len(simulated) = 41
    /\ simulated[41] = <<i, j, tIdx>>
    /\ valuations = 80
    /\ Len(results) = 80
    /\ Len(s0List) = 5

-----------------------------------------------------------------------------
\* The consumers of a result: ResultTable (ResultTable.tsx) and handleExportExcel
\* (App.tsx 65-181)

\* ResultTable.tsx 19-57: colDefs; position c of the code is position c + 1 here
ResultTableCol(sIdx, vIdx, t) == [sIdx |-> sIdx, vIdx |-> vIdx, tIdx |-> t]
ResultTableBlock(t) ==
    << ResultTableCol(1, 2, t), ResultTableCol(1, 1, t), ResultTableCol(1, 3, t),
       ResultTableCol(2, 1, t), ResultTableCol(2, 3, t),
       ResultTableCol(3, 2, t), ResultTableCol(3, 1, t), ResultTableCol(3, 3, t) >>
ResultTableColDefs ==
    << ResultTableCol(2, 2, 0), ResultTableCol(2, 2, 1), ResultTableCol(2, 2, 2) >>
        \o ResultTableBlock(0) \o ResultTableBlock(1) \o ResultTableBlock(2)

\* App.tsx 76-90: colDefs of the export
\* faulty variant: within a block the pivot-spot columns come first
ExportBlock_PivotFirst(t) ==
    << [sIdx |-> 2, vIdx |-> 1, tIdx |-> t],
       [sIdx |-> 2, vIdx |-> 3, tIdx |-> t],
       [sIdx |-> 1, vIdx |-> 2, tIdx |-> t],
       [sIdx |-> 1, vIdx |-> 1, tIdx |-> t],
       [sIdx |-> 1, vIdx |-> 3, tIdx |-> t],
       [sIdx |-> 3, vIdx |-> 2, tIdx |-> t],
       [sIdx |-> 3, vIdx |-> 1, tIdx |-> t],
       [sIdx |-> 3, vIdx |-> 3, tIdx |-> t] >>
ExportBlock(t) ==
    << [sIdx |-> 1, vIdx |-> 2, tIdx |-> t],
       [sIdx |-> 1, vIdx |-> 1, tIdx |-> t],
       [sIdx |-> 1, vIdx |-> 3, tIdx |-> t],
       [sIdx |-> 2, vIdx |-> 1, tIdx |-> t],
       [sIdx |-> 2, vIdx |-> 3, tIdx |-> t],
       [sIdx |-> 3, vIdx |-> 2, tIdx |-> t],
       [sIdx |-> 3, vIdx |-> 1, tIdx |-> t],
       [sIdx |-> 3, vIdx |-> 3, tIdx |-> t] >>
ExportColDefs ==
    [t \in 1..3 |-> [sIdx |-> 2, vIdx |-> 2, tIdx |-> t - 1]]
        \o ExportBlock(0) \o ExportBlock(1) \o ExportBlock(2)

\* arr[index] of a JavaScript array: NaN stands for undefined, which compares like it
ElementAt(arr, index) == IF index + 1 \in DOMAIN arr THEN arr[index + 1] ELSE NaN

\* App.tsx 117-123, ResultTable.tsx 101-107: results.find(...) and the 0 fallback.  The
\* tolerances (0.001, 0.0001) are below the resolution of the model (1/100), so a row
\* matches when its four values are equal; undefined matches nothing
Matches(rows, sVal, vVal, tVal, k) ==
    {n \in 1..Len(rows) :
        /\ StrictEquals(rows[n].s0, sVal)
        /\ StrictEquals(rows[n].vol, vVal)
        /\ StrictEquals(rows[n].t, tVal)
        /\ StrictEquals(rows[n].k, k)}
FirstOf(set) == CHOOSE n \in set : \A m \in set : n <= m
MatchPrice(rows, sVal, vVal, tVal, k) ==
    IF Matches(rows, sVal, vVal, tVal, k) = {} THEN 0
    ELSE rows[FirstOf(Matches(rows, sVal, vVal, tVal, k))].price

\* the empty cell of the paths sheet (App.tsx line 157 pushes "")
Blank == -888888
\* App.tsx line 138
ExportCap == 200000
Min(a, b) == IF a <= b THEN a ELSE b

\* App.tsx 72-172: the workbook the export callback writes from the results and params
\* it closed over
ExportWorkbook(res, prm) ==
    LET s0Values == generateGeometricScenarios(prm.s0, prm.s0Step)
        volValues == generateArithmeticScenarios(prm.vol, prm.volStep)
        exportCount == Min(prm.nPaths, ExportCap)
        startIndex == prm.nPaths - exportCount
    IN  [ headerRow1 |-> [c \in 1..27 |-> ElementAt(s0Values, ExportColDefs[c].sIdx)],
          headerRow2 |-> [c \in 1..27 |-> ElementAt(volValues, ExportColDefs[c].vIdx)],
          headerRow3 |-> [c \in 1..27 |-> ElementAt(prm.maturities, ExportColDefs[c].tIdx)],
          prices |->
              [n \in 1..Len(prm.strikes) |->
                  [ strike |-> prm.strikes[n],
                    values |->
                        [c \in 1..27 |->
                            MatchPrice(res.results,
                                       ElementAt(s0Values, ExportColDefs[c].sIdx),
                                       ElementAt(volValues, ExportColDefs[c].vIdx),
                                       ElementAt(prm.maturities, ExportColDefs[c].tIdx),
                                       prm.strikes[n])] ]],
          paths |->
              [row \in 1..exportCount |->
                  [c \in 1..27 |->
                      IF /\ (c - 1) \in DOMAIN res.detailedPaths
                         /\ Len(res.detailedPaths[c - 1]) > startIndex + row - 1
                      THEN res.detailedPaths[c - 1][startIndex + row]
                      ELSE Blank]] ]

\* App.tsx 65-71, 238-241: the Export button (rendered when results is not null, disabled
\* while isExporting) is clicked; the callback closes over the results and params of
\* this render
handleExportExcel ==
    /\ appResults # <<>>
    /\ ~isExporting
    /\ pc \in {"idle", "timer"}
    /\ isExporting' = TRUE
    /\ exportJob' = <<[results |-> appResults[1], params |-> params]>>
    /\ timers' = Append(timers, "export")
    /\ workbook' = <<>>
    /\ UNCHANGED resultRun
    /\ UNCHANGED <<appVars, runVars, histVars, countVars>>

\* App.tsx 71-179: the export timer fires; the workbook is written and isExporting reset
ExportTimerFires ==
    /\ timers # <<>>
    /\ Head(timers) = "export"
    /\ pc \in {"idle", "timer"}
    /\ workbook' = <<ExportWorkbook(exportJob[1].results, exportJob[1].params)>>
    /\ isExporting' = FALSE
    /\ exportJob' = <<>>
    /\ timers' = Tail(timers)
    /\ UNCHANGED resultRun
    /\ UNCHANGED <<appVars, runVars, histVars, countVars>>

\* the App after mount, with the generator in one state
InitExport ==
    /\ params = DefaultParams
    /\ runParams = params
    /\ rng = 0
    /\ pc = "idle"
    /\ AppAtRest
    /\ NoRun

\* the Sidebar edits made around an export: a path count no run can allocate, another
\* spot, and the strikes in another order
ExportEdits == { <<"nPaths", HugePaths>>, <<"s0", 200>> }
ExportStrikesTexts == { <<150, NaN, 100>> }

NextExport ==
    \/ \E e \in ExportEdits : updateParam(e[1], e[2])
    \/ \E tokens \in ExportStrikesTexts : handleStrikesBlur(tokens)
    \/ handleRunSimulation
    \/ TimerFires
    \/ runFullSimulation
    \/ RunSucceeded
    \/ RunFailed
    \/ handleExportExcel
    \/ ExportTimerFires

ExportSpec == InitExport /\ [][NextExport]_vars

-----------------------------------------------------------------------------
\* the triple of a colDefs entry, and the triple the mapper sends to column c
TripleOf(col) == <<col.sIdx, col.vIdx, col.tIdx>>
MapperTriple(c) == CHOOSE tr \in Triples(3) : Column(tr) = c

\* C21: the column layout is the same in the three places that encode it: for every
\* column c in 0..26 the entry c of ResultTable's colDefs and the entry c of the export's
\* colDefs are the one triple the mapper sends to c; a run that returns has assigned
\* slot c of detailedPaths from that triple and no other; and the export writes, in its
\* column c, the sample of slot c of the exported result under the spot, volatility and
\* maturity that its params give for that triple
C21_SameLayout ==
    [][ /\ pc' = "returned" =>
              \A c \in 0..26 : detailedFrom'[c] = << MapperTriple(c) >>
        /\ workbook' # <<>> =>
              /\ Len(ResultTableColDefs) = 27
              /\ Len(ExportColDefs) = 27
              /\ \A c \in 0..26 :
                    /\ {tr \in Triples(3) : Column(tr) = c} = {TripleOf(ResultTableColDefs[c + 1])}
                    /\ {tr \in Triples(3) : Column(tr) = c} = {TripleOf(ExportColDefs[c + 1])}
              /\ \A c \in 0..26 :
                    LET job == exportJob[1]
                        book == workbook'[1]
                        tr == MapperTriple(c)
                        axisS0 == generateGeometricScenarios(job.params.s0, job.params.s0Step)
                        axisVol == generateArithmeticScenarios(job.params.vol, job.params.volStep)
                    IN  /\ book.headerRow1[c + 1] = axisS0[tr[1] + 1]
                        /\ book.headerRow2[c + 1] = axisVol[tr[2] + 1]
                        /\ book.headerRow3[c + 1] = job.params.maturities[tr[3] + 1]
                        /\ \A row \in 1..Len(book.paths) :
                              book.paths[row][c + 1] =
                                  IF row <= Len(job.results.detailedPaths[c])
                                  THEN job.results.detailedPaths[c][row]
                                  ELSE Blank
      ]_vars

\* the result of a run of the default params has just been exported: the last column
\* carries the sample of slot 26 under the header of the triple (3, 3, 2)
C21_Witness ==
    /\ workbook # <<>>
    /\ edits = 0
    /\ runs = 1
    /\ appResults # <<>>
    /\ workbook[1].headerRow1[27] = 110
    /\ workbook[1].headerRow2[27] = 25
    /\ workbook[1].headerRow3[27] = 0
    /\ Len(workbook[1].paths) = 1
    /\ workbook[1].paths[1][27] # Blank
    /\ workbook[1].paths[1][27] = appResults[1].detailedPaths[26][1]
    /\ resultRun[1].detailedFrom[26] = << <<3, 3, 2>> >>

-----------------------------------------------------------------------------
\* the non-zero values among those drawn by the current gaussianRandom call
IsNonZero(x) == x # 0
NonZeroDraws == SelectSeq(callDrawn, IsNonZero)
Returns == pc = "drawU" /\ pc' = "paths"

\* C22: gaussianRandom never takes the logarithm of a draw equal to 0: while u is 0 its
\* next step draws u again, then while v is 0 its next step draws v again, and with both
\* non-zero its next step returns without a further draw; so it returns on u and v
\* being the first two non-zero values the source yields, v being the last value drawn
C22_ZeroGuard ==
    [][ /\ Returns =>
              /\ u # 0 /\ v # 0
              /\ NonZeroDraws = <<u, v>>
              /\ callDrawn[Len(callDrawn)] = v
              /\ terminalPrices'[p + 1] = TerminalPrice(BoxMuller(u, v))
        /\ (pc = "drawU" /\ u = 0) =>
              /\ pc' = "drawU"
              /\ callDrawn' = Append(callDrawn, u')
              /\ v' = 0
        /\ (pc = "drawU" /\ u # 0 /\ v = 0) =>
              /\ pc' = "drawU"
              /\ callDrawn' = Append(callDrawn, v')
              /\ u' = u
        /\ (pc = "drawU" /\ u # 0 /\ v # 0) =>
              /\ pc' = "paths"
              /\ callDrawn' = callDrawn
              /\ rng' = rng
      ]_vars

\* a call whose first draw was 0 has returned on the two values drawn after it
C22_Witness ==
    /\ pc = "paths"
    /\ p >= 1
    /\ callDrawn = <<0, 1, 2>>
    /\ u = 1
    /\ v = 2
    /\ terminalPrices[p] # 0

-----------------------------------------------------------------------------
\* C23 as stated: every call of gaussianRandom consumes exactly two draws, and a run
\* that returns has consumed exactly 2 * nPaths * 25 * M draws
C23_TwoDrawsPerCall ==
    [][ /\ Returns => Len(callDrawn) = 2
        /\ (pc' = "returned" /\ runParams.nPaths >= 0) =>
              draws' = 2 * runParams.nPaths * 25 * M
      ]_vars

\* C23, amended: every call of gaussianRandom consumes its two non-zero draws and one
\* more draw for every 0 the source returned to it, so at least two; a run that returns
\* has consumed 2 * nPaths * 25 * M draws and one more for every 0 the source returned
C23_TwoNonZeroDrawsPerCall ==
    [][ /\ Returns =>
              /\ Len(NonZeroDraws) = 2
              /\ Len(callDrawn) >= 2
        /\ draws' # draws =>
              /\ draws' = draws + 1
              /\ pc = "drawU"
        /\ (pc' = "returned" /\ runParams.nPaths >= 0) =>
              /\ draws' = 2 * runParams.nPaths * 25 * M + zeroDraws'
              /\ draws' >= 2 * runParams.nPaths * 25 * M
      ]_vars

\* a run of MaxPaths paths, 3 maturities has returned: 150 calls of gaussianRandom drew
\* 300 non-zero values and some zeros besides
C23_Witness ==
    /\ Completed
    /\ M = 3
    /\ runParams.nPaths = MaxPaths
    /\ zeroDraws > 0
    /\ draws = 2 * MaxPaths * 25 * 3 + zeroDraws
    /\ Len(callDrawn) \in {2, 3}

-----------------------------------------------------------------------------
\* the run callbacks waiting in the timer queue, and a run callback being executed
PendingRuns == Cardinality({n \in 1..Len(timers) : timers[n] = "run"})
Executing == pc \in {"axes", "loop", "paths", "drawU", "strikes", "returned", "thrown"}

\* C24: at most one run is pending or executing at any time, and isSimulating is set as
\* long as one is; handleRunSimulation starts a run only when none is pending or
\* executing and isSimulating is not set, and isSimulating is reset only by the step that
\* ends the timer callback
C24_SingleRun ==
    [][ /\ PendingRuns + (IF Executing THEN 1 ELSE 0) <= 1
        /\ (PendingRuns > 0 \/ Executing) => isSimulating
        /\ runs' # runs =>
              /\ ~isSimulating
              /\ PendingRuns = 0
              /\ ~Executing
              /\ isSimulating'
              /\ PendingRuns' = 1
        /\ (isSimulating /\ ~isSimulating') => pc \in {"returned", "thrown"}
      ]_vars

\* the second run is pending: the first has ended and published its result, Run was
\* clicked again and its timer has not fired yet
C24_Witness ==
    /\ runs = 2
    /\ isSimulating
    /\ pc = "timer"
    /\ PendingRuns = 1
    /\ appResults # <<>>

-----------------------------------------------------------------------------
\* C25: every started run ends: once handleRunSimulation has set isSimulating for the
\* n-th run, isSimulating becomes false again with that run still the last one started,
\* whether runFullSimulation returned or threw; and isSimulating is false in every state
\* where no run is pending or executing
C25_RunEnds ==
    /\ []((PendingRuns = 0 /\ ~Executing) => ~isSimulating)
    /\ \A n \in 1..MaxRuns : (runs = n /\ isSimulating) ~> (runs = n /\ ~isSimulating)

\* two runs have ended, one by returning a result and the last one by throwing
C25_Witness ==
    /\ runs = 2
    /\ LastRunFailed
    /\ appResults # <<>>
    /\ ~isSimulating
    /\ PendingRuns = 0

-----------------------------------------------------------------------------
\* C26: whenever a result is displayed, the params state, which ResultTable reads at
\* every render (App.tsx 394-398) and handleExportExcel reads at the click (App.tsx
\* 93-137), is the parameter set of the run that produced that result
C26_ParamsOfResult ==
    appResults # <<>> => params = resultRun[1].params

-----------------------------------------------------------------------------
\* ResultTable (ResultTable.tsx 59-110)

\* Array.from(new Set(values)).sort((a, b) => a - b) on numbers
RECURSIVE SortAscending(_)
SortAscending(set) ==
    IF set = {} THEN <<>>
    ELSE LET lowest == CHOOSE x \in set : \A y \in set : x <= y
         IN  <<lowest>> \o SortAscending(set \ {lowest})

\* ResultTable.tsx 64-74
s0Values(res) == SortAscending({res.results[n].s0 : n \in 1..Len(res.results)})
volValues(res) == SortAscending({res.results[n].vol : n \in 1..Len(res.results)})

\* ResultTable.tsx line 77: the table is replaced by "Not enough simulation steps
\* generated"
NotEnoughSteps(res) ==
    \/ Len(res.results) = 0
    \/ Len(s0Values(res)) < 5
    \/ Len(volValues(res)) < 5

\* ResultTable.tsx 90-107: the row results.find returns for the cell of column c (from
\* 1) and the n-th strike, 0 when the bound check fails or no row matches
CellRow(res, prm, c, n) ==
    LET col == ResultTableColDefs[c]
        found == Matches(res.results,
                         ElementAt(s0Values(res), col.sIdx),
                         ElementAt(volValues(res), col.vIdx),
                         ElementAt(prm.maturities, col.tIdx),
                         prm.strikes[n])
    IN  IF \/ col.sIdx >= Len(s0Values(res))
           \/ col.vIdx >= Len(volValues(res))
           \/ col.tIdx >= Len(prm.maturities)
        THEN 0
        ELSE IF found = {} THEN 0 ELSE FirstOf(found)

\* ResultTable.tsx 81-83, 86-110: headers and rows of the rendered table
ResultTable(res, prm) ==
    [ headerS0 |-> [c \in 1..27 |-> ElementAt(s0Values(res), ResultTableColDefs[c].sIdx)],
      headerVol |-> [c \in 1..27 |-> ElementAt(volValues(res), ResultTableColDefs[c].vIdx)],
      headerMat |-> [c \in 1..27 |-> ElementAt(prm.maturities, ResultTableColDefs[c].tIdx)],
      rows |->
          [n \in 1..Len(prm.strikes) |->
              [ strike |-> prm.strikes[n],
                values |->
                    [c \in 1..27 |->
                        IF CellRow(res, prm, c, n) = 0 THEN 0
                        ELSE res.results[CellRow(res, prm, c, n)].price] ]] ]

\* the spot steps typed in the Sidebar before the first run: the default, one above
\* 100 %, and 0
TableSpotSteps == {10, 150, 0}
TableParams == {[DefaultParams EXCEPT !.s0Step = step] : step \in TableSpotSteps}

InitTable ==
    /\ params \in TableParams
    /\ runParams = params
    /\ rng = 0
    /\ pc = "idle"
    /\ AppAtRest
    /\ NoRun

\* runs only: the table of each result is rendered with the params of its run
NextTable ==
    \/ handleRunSimulation
    \/ TimerFires
    \/ runFullSimulation
    \/ RunSucceeded

TableSpec == InitTable /\ [][NextTable]_vars

\* the table is rendered from a result: a run has ended and published it
TableShown == pc = "idle" /\ appResults # <<>> /\ ~NotEnoughSteps(appResults[1])

\* the position in results of the row generated for the indices of column c and the
\* n-th strike, by the run that produced the displayed result
GeneratedRow(c, n) ==
    LET col == ResultTableColDefs[c]
        run == resultRun[1].params
    IN  ((col.sIdx * 5 + col.vIdx) * Len(run.maturities) + col.tIdx) * Len(run.strikes) + n

\* C27: when the table is shown for a result whose two axes have 5 distinct values, the
\* sorted distinct s0 and vol values of the rows are the generated axes, index by index,
\* and every cell shows the row generated at the indices of its column with its strike,
\* never the 0 of a failed lookup
C27_TableReadsGeneratedRows ==
    TableShown =>
        /\ s0Values(appResults[1]) =
              generateGeometricScenarios(resultRun[1].params.s0, resultRun[1].params.s0Step)
        /\ volValues(appResults[1]) =
              generateArithmeticScenarios(resultRun[1].params.vol, resultRun[1].params.volStep)
        /\ \A c \in 1..27 : \A n \in 1..Len(params.strikes) :
              CellRow(appResults[1], params, c, n) = GeneratedRow(c, n)

====
